---- MODULE Spec2Model ----
(***************************************************************************)
(* Model of src/loader/filetypes/PluginFile.js: the PluginFile file type   *)
(* (constructor and onProcess) and the loader's `plugin` operation.        *)
(*                                                                         *)
(* The base class File, the loader (addFile), the transport (XHRLoader)    *)
(* and the helper GetFastValue are not part of the source file; they are   *)
(* modelled from the specification's description of the unit's lifecycle.  *)
(*                                                                         *)
(* JavaScript values are modelled by strings:                              *)
(*   Undefined            the value undefined                              *)
(*   FnOk, FnThrows       two callables (classes); register() of the first *)
(*                        returns, register() of the second throws         *)
(*   anything else        an ordinary string                               *)
(***************************************************************************)
EXTENDS Naturals, Sequences, FiniteSets, TLC

(***************************************************************************)
(* Bounds of the model.                                                    *)
(***************************************************************************)
MaxUnits == 1          \* units handed to addFile in the lifecycle specification
MaxBatch == 2          \* length of an array passed to plugin() in the construction specification
MaxProcessCalls == 2   \* onProcess calls made on one unit

(***************************************************************************)
(* JavaScript values.                                                      *)
(***************************************************************************)
Undefined == "<undefined>"
Null == "<null>"
FnOk == "<function PluginA>"
FnThrows == "<function PluginB>"

Functions == {FnOk, FnThrows}

\* typeof v === 'function'
IsFunction(v) == v \in Functions

(***************************************************************************)
(* Values a slot of the host namespace (window) can hold.                  *)
(***************************************************************************)
Unbound == "unbound"            \* window[k] === undefined
Unrelated == "unrelated"        \* a value the plugin loader did not put there
ScriptOk == "scriptOk"          \* bound by a loaded script; register() returns
ScriptThrows == "scriptThrows"  \* bound by a loaded script; register() throws

SlotValues == {Unbound, Unrelated, ScriptOk, ScriptThrows, FnOk, FnThrows}

\* does the value expose a register method
HasRegister(v) == v \in {ScriptOk, ScriptThrows, FnOk, FnThrows}

\* does register(PluginManager) of the value throw
RegisterThrows(v) == v \in {ScriptThrows, FnThrows}

(***************************************************************************)
(* Payloads the transport can deliver (the text of the script), named by   *)
(* what evaluating the script does to window[key].                         *)
(***************************************************************************)
BindsOk == "window[key]={register(){}}"
BindsThrowing == "window[key]={register(){throw}}"
BindsNothing == "/* binds nothing */"

Payloads == {BindsOk, BindsThrowing, BindsNothing}

(***************************************************************************)
(* File states (the loader's CONST.FILE_* values, named as in the          *)
(* specification).                                                         *)
(***************************************************************************)
Pending == "Pending"
Loading == "Loading"
Processing == "Processing"
Complete == "Complete"
Errored == "Errored"
Destroyed == "Destroyed"

States == {Pending, Loading, Processing, Complete, Errored, Destroyed}

(***************************************************************************)
(* Errors surfaced to the caller of an operation.                          *)
(***************************************************************************)
NoError == [name |-> "none", key |-> Undefined]
ConfigurationError == [name |-> "ConfigurationError", key |-> Undefined]
TypeError == [name |-> "TypeError", key |-> Undefined]
RegisterError == [name |-> "RegisterError", key |-> Undefined]
TransferError(k) == [name |-> "TransferError", key |-> k]

(***************************************************************************)
(* State.                                                                  *)
(*   window     the host namespace: slot name -> value                     *)
(*   files      the units handed to the loader's addFile, in call order    *)
(*   lastError  the error the last operation surfaced (NoError if none)    *)
(*   lastCall   when the last operation was a plugin() call: its form, its *)
(*              arguments and the number of units queued before it         *)
(***************************************************************************)
VARIABLES window, files, lastError, lastCall

vars == <<window, files, lastError, lastCall>>

NoCall == [form |-> "none", args |-> <<>>, base |-> 0]

\* property names used in window: the keys, plus what a missing or empty
\* key is turned into by window[key]
ValidKeys == {"a", "b"}
SlotNames == ValidKeys \cup {"", "undefined"}

\* ToPropertyKey that names the same property whatever the key
ToPropertyKeyFixed(key) == "a"

\* window[key]: the property name a key is converted to
ToPropertyKey(key) == IF key = Undefined THEN "undefined" ELSE key

\* GetFastValue(source, field, default)
GetFastValue(value, default) == IF value = Undefined THEN default ELSE value

(***************************************************************************)
(* Arguments of `new PluginFile(loader, key, url, xhrSettings)`.           *)
(* isObject says whether the second argument is a plain object (a          *)
(* configuration record); then key, url, xhrSettings and extension are its *)
(* fields.  Otherwise key, url and xhrSettings are the positional          *)
(* arguments and extension is not used.                                    *)
(***************************************************************************)
Args(keys, urls, xhrs, exts) ==
    [isObject : {TRUE}, key : keys, url : urls, xhrSettings : xhrs, extension : exts]
    \cup
    [isObject : {FALSE}, key : keys, url : urls, xhrSettings : xhrs, extension : {Undefined}]

(***************************************************************************)
(* File constructor, File.call(this, loader, fileConfig).                  *)
(***************************************************************************)
FileThrows(fileConfig) == fileConfig.key = Undefined \/ fileConfig.key = ""

File(fileConfig) ==
    [key |-> fileConfig.key,
     url |-> IF fileConfig.url = Undefined
             THEN fileConfig.key \o "." \o fileConfig.extension
             ELSE fileConfig.url,
     extension |-> fileConfig.extension,
     xhrSettings |-> fileConfig.xhrSettings,
     state |-> IF IsFunction(fileConfig.url) THEN Complete ELSE Pending,
     xhrLoader |-> Null,
     data |-> Null,
     inflight |-> FALSE,
     transportCalls |-> 0,
     processCalls |-> 0,
     registerCalls |-> 0,
     completeNotices |-> 0]

(***************************************************************************)
(* PluginFile constructor.                                                 *)
(***************************************************************************)
\* FileConfig that never reads the extension of a configuration record
FileConfigIgnoresExtension(arg) ==
    [key |-> arg.key,
     url |-> arg.url,
     xhrSettings |-> arg.xhrSettings,
     extension |-> "js"]

\* lines 51-61 and 70-78: the fileConfig built from the arguments
FileConfig(arg) ==
    [key |-> arg.key,
     url |-> arg.url,
     xhrSettings |-> arg.xhrSettings,
     extension |-> IF arg.isObject THEN GetFastValue(arg.extension, "js") ELSE "js"]

\* AddDirectly without the register call
AddDirectlyNoRegister(win, cfg) ==
    IF IsFunction(cfg.url)
    THEN [window |-> [win EXCEPT ![ToPropertyKey(cfg.key)] = cfg.url],
          registered |-> FALSE,
          threw |-> FALSE]
    ELSE [window |-> win, registered |-> FALSE, threw |-> FALSE]

\* lines 63-68: when url is a function it is bound in window under the key
\* and its register is called; the call throws when register throws
AddDirectly(win, cfg) ==
    IF IsFunction(cfg.url)
    THEN [window |-> [win EXCEPT ![ToPropertyKey(cfg.key)] = cfg.url],
          registered |-> TRUE,
          threw |-> RegisterThrows(cfg.url)]
    ELSE [window |-> win, registered |-> FALSE, threw |-> FALSE]

\* The result says whether the constructor threw, with which error, the
\* namespace it leaves, whether register was called, and the unit it built.
PluginFile(win, arg) ==
    LET cfg == FileConfig(arg)
        d == AddDirectly(win, cfg)
    IN  IF d.threw
        THEN [threw |-> TRUE, error |-> RegisterError, window |-> d.window,
              registered |-> d.registered]
        ELSE IF FileThrows(cfg)
        THEN [threw |-> TRUE, error |-> ConfigurationError, window |-> d.window,
              registered |-> d.registered]
        ELSE [threw |-> FALSE, error |-> NoError, window |-> d.window,
              registered |-> d.registered,
              unit |-> [File(cfg) EXCEPT !.registerCalls = IF d.registered THEN 1 ELSE 0]]

(***************************************************************************)
(* The loader's plugin operation: FileTypesManager.register('plugin', ..). *)
(***************************************************************************)
\* PluginLoop building every unit from the first element of the array
RECURSIVE PluginLoopFirstElement(_, _, _, _)
PluginLoopFirstElement(key, i, win, list) ==
    IF i > Len(key)
    THEN [window |-> win, files |-> list, error |-> NoError]
    ELSE LET r == PluginFile(win, key[1])
         IN  IF r.threw
             THEN [window |-> r.window, files |-> list, error |-> r.error]
             ELSE PluginLoopFirstElement(key, i + 1, r.window, Append(list, r.unit))

\* PluginLoop that goes on with the next element when a construction throws
RECURSIVE PluginLoopSkipsFailed(_, _, _, _)
PluginLoopSkipsFailed(key, i, win, list) ==
    IF i > Len(key)
    THEN [window |-> win, files |-> list, error |-> NoError]
    ELSE LET r == PluginFile(win, key[i])
         IN  IF r.threw
             THEN LET rest == PluginLoopSkipsFailed(key, i + 1, r.window, list)
                  IN  [rest EXCEPT !.error = r.error]
             ELSE PluginLoopSkipsFailed(key, i + 1, r.window, Append(list, r.unit))

\* the for loop over an array, from index i on; an element whose
\* construction throws ends the loop and the call
RECURSIVE PluginLoop(_, _, _, _)
PluginLoop(key, i, win, list) ==
    IF i > Len(key)
    THEN [window |-> win, files |-> list, error |-> NoError]
    ELSE LET r == PluginFile(win, key[i])
         IN  IF r.threw
             THEN [window |-> r.window, files |-> list, error |-> r.error]
             ELSE PluginLoop(key, i + 1, r.window, Append(list, r.unit))

\* the else branch: this.addFile(new PluginFile(this, key, url, xhrSettings))
PluginSingle(arg, win, list) ==
    LET r == PluginFile(win, arg)
    IN  IF r.threw
        THEN [window |-> r.window, files |-> list, error |-> r.error]
        ELSE [window |-> r.window, files |-> Append(list, r.unit), error |-> NoError]

\* plugin(key, url, xhrSettings) with a non-array first argument
Plugin(arg) ==
    LET r == PluginSingle(arg, window, files)
    IN  /\ window' = r.window
        /\ files' = r.files
        /\ lastError' = r.error
        /\ lastCall' = [form |-> "single", args |-> <<arg>>, base |-> Len(files)]

\* plugin(key) with an array of configuration records
PluginArray(key) ==
    LET r == PluginLoop(key, 1, window, files)
    IN  /\ window' = r.window
        /\ files' = r.files
        /\ lastError' = r.error
        /\ lastCall' = [form |-> "array", args |-> key, base |-> Len(files)]

(***************************************************************************)
(* Transfer: File.load and the transport's callback, and destroy.          *)
(***************************************************************************)
StartTransfer(i) ==
    /\ files[i].state = Pending
    /\ files' = [files EXCEPT ![i].state = Loading,
                              ![i].inflight = TRUE,
                              ![i].transportCalls = @ + 1]
    /\ lastError' = NoError
    /\ lastCall' = NoCall
    /\ UNCHANGED window

\* the transport's completion callback with a payload; a unit that is no
\* longer Loading ignores it
TransportSuccess(i, payload) ==
    /\ files[i].inflight
    /\ files' = [files EXCEPT ![i].inflight = FALSE,
                              ![i].xhrLoader =
                                  IF files[i].state = Loading THEN payload ELSE @]
    /\ lastError' = NoError
    /\ lastCall' = NoCall
    /\ UNCHANGED window

\* the transport's completion callback with an error
TransportFailure(i) ==
    /\ files[i].inflight
    /\ files' = [files EXCEPT ![i].inflight = FALSE,
                              ![i].state =
                                  IF files[i].state = Loading THEN Errored ELSE @]
    /\ lastError' = IF files[i].state = Loading
                    THEN TransferError(files[i].key) ELSE NoError
    /\ lastCall' = NoCall
    /\ UNCHANGED window

Destroy(i) ==
    /\ files[i].state # Destroyed
    /\ files' = [files EXCEPT ![i].state = Destroyed,
                              ![i].xhrLoader = Null,
                              ![i].data = Null]
    /\ lastError' = NoError
    /\ lastCall' = NoCall
    /\ UNCHANGED window

(***************************************************************************)
(* PluginFile.onProcess.                                                   *)
(***************************************************************************)
\* document.createElement('script') with its text set
ScriptElement(text) == "script:" \o text

\* AppendChild that does not evaluate the script before it returns
AppendChildDeferred(win, slot, text) == win

\* document.head.appendChild(script): the script's text is evaluated
AppendChild(win, slot, text) ==
    IF text = BindsOk THEN [win EXCEPT ![slot] = ScriptOk]
    ELSE IF text = BindsThrowing THEN [win EXCEPT ![slot] = ScriptThrows]
    ELSE win

\* File.onProcessComplete
OnProcessComplete(file) ==
    [file EXCEPT !.state = Complete, !.completeNotices = @ + 1]

\* OnProcessBody with register called before the script element is appended
OnProcessBodyRegisterFirst(win, file) ==
    LET f0 == [file EXCEPT !.state = Processing]
        slot == ToPropertyKey(f0.key)
    IN  IF f0.xhrLoader = Null
        THEN [window |-> win, file |-> [f0 EXCEPT !.data = ScriptElement("")],
              error |-> TypeError]
        ELSE LET f1 == [f0 EXCEPT !.data = ScriptElement(f0.xhrLoader)]
                 win1 == AppendChild(win, slot, f0.xhrLoader)
             IN  IF ~HasRegister(win[slot])
                 THEN [window |-> win, file |-> f1, error |-> TypeError]
                 ELSE LET f2 == [f1 EXCEPT !.registerCalls = @ + 1]
                      IN  IF RegisterThrows(win[slot])
                          THEN [window |-> win, file |-> f2, error |-> RegisterError]
                          ELSE [window |-> win1, file |-> OnProcessComplete(f2),
                                error |-> NoError]

\* OnProcessBody that drops the response once the script element is built
OnProcessBodyConsumesPayload(win, file) ==
    LET f0 == [file EXCEPT !.state = Processing]
        slot == ToPropertyKey(f0.key)
    IN  IF f0.xhrLoader = Null
        THEN [window |-> win, file |-> [f0 EXCEPT !.data = ScriptElement("")],
              error |-> TypeError]
        ELSE LET f1 == [f0 EXCEPT !.data = ScriptElement(f0.xhrLoader),
                                  !.xhrLoader = Null]
                 win1 == AppendChild(win, slot, f0.xhrLoader)
             IN  IF ~HasRegister(win1[slot])
                 THEN [window |-> win1, file |-> f1, error |-> TypeError]
                 ELSE LET f2 == [f1 EXCEPT !.registerCalls = @ + 1]
                      IN  IF RegisterThrows(win1[slot])
                          THEN [window |-> win1, file |-> f2, error |-> RegisterError]
                          ELSE [window |-> win1, file |-> OnProcessComplete(f2),
                                error |-> NoError]

\* OnProcessBody with onProcessComplete called before register
OnProcessBodyCompleteFirst(win, file) ==
    LET f0 == [file EXCEPT !.state = Processing]
        slot == ToPropertyKey(f0.key)
    IN  IF f0.xhrLoader = Null
        THEN [window |-> win, file |-> [f0 EXCEPT !.data = ScriptElement("")],
              error |-> TypeError]
        ELSE LET f1 == OnProcessComplete([f0 EXCEPT !.data = ScriptElement(f0.xhrLoader)])
                 win1 == AppendChild(win, slot, f0.xhrLoader)
             IN  IF ~HasRegister(win1[slot])
                 THEN [window |-> win1, file |-> f1, error |-> TypeError]
                 ELSE LET f2 == [f1 EXCEPT !.registerCalls = @ + 1]
                      IN  IF RegisterThrows(win1[slot])
                          THEN [window |-> win1, file |-> f2, error |-> RegisterError]
                          ELSE [window |-> win1, file |-> f2, error |-> NoError]

\* The body of onProcess on a unit: the namespace and the unit it leaves,
\* and the error it throws (NoError when it returns).
OnProcessBody(win, file) ==
    LET f0 == [file EXCEPT !.state = Processing]
        slot == ToPropertyKey(f0.key)
    IN  IF f0.xhrLoader = Null
        THEN \* line 98: this.xhrLoader is null, reading responseText throws
             [window |-> win, file |-> [f0 EXCEPT !.data = ScriptElement("")],
              error |-> TypeError]
        ELSE LET f1 == [f0 EXCEPT !.data = ScriptElement(f0.xhrLoader)]
                 win1 == AppendChild(win, slot, f0.xhrLoader)
             IN  IF ~HasRegister(win1[slot])
                 THEN \* line 103: window[key] is undefined or has no register
                      [window |-> win1, file |-> f1, error |-> TypeError]
                 ELSE LET f2 == [f1 EXCEPT !.registerCalls = @ + 1]
                      IN  IF RegisterThrows(win1[slot])
                          THEN [window |-> win1, file |-> f2, error |-> RegisterError]
                          ELSE [window |-> win1, file |-> OnProcessComplete(f2),
                                error |-> NoError]

OnProcess(i) ==
    /\ files[i].processCalls < MaxProcessCalls
    /\ LET r == OnProcessBody(window, [files[i] EXCEPT !.processCalls = @ + 1])
       IN  /\ window' = r.window
           /\ files' = [files EXCEPT ![i] = r.file]
           /\ lastError' = r.error
           /\ lastCall' = NoCall

(***************************************************************************)
(* Specification of the unit lifecycle: plugin() calls, transfers,         *)
(* onProcess calls and destruction, in any order.                          *)
(***************************************************************************)
Keys == ValidKeys \cup {"", Undefined}
Urls == {Undefined, FnOk, FnThrows}

LifecycleArgs == Args(Keys, Urls, {Undefined}, {Undefined})

\* arrays of length n of configuration records
ConfigArrays(S, n) == [1..n -> {a \in S : a.isObject}]

InitWindows ==
    {w \in [SlotNames -> {Unbound, Unrelated}] : w[""] = Unbound /\ w["undefined"] = Unbound}

Init ==
    /\ window \in InitWindows
    /\ files = <<>>
    /\ lastError = NoError
    /\ lastCall = NoCall

DoPlugin ==
    /\ Len(files) < MaxUnits
    /\ \E arg \in LifecycleArgs : Plugin(arg)

DoPluginArray ==
    \E n \in 1..(MaxUnits - Len(files)) :
        \E key \in ConfigArrays(LifecycleArgs, n) : PluginArray(key)

DoStartTransfer == \E i \in 1..Len(files) : StartTransfer(i)

DoTransportSuccess == \E i \in 1..Len(files) : \E p \in Payloads : TransportSuccess(i, p)

DoTransportFailure == \E i \in 1..Len(files) : TransportFailure(i)

DoDestroy == \E i \in 1..Len(files) : Destroy(i)

DoProcess == \E i \in 1..Len(files) : OnProcess(i)

Next ==
    \/ DoPlugin
    \/ DoPluginArray
    \/ DoStartTransfer
    \/ DoTransportSuccess
    \/ DoTransportFailure
    \/ DoDestroy
    \/ DoProcess

Spec == Init /\ [][Next]_vars

(***************************************************************************)
(* Specification of construction alone: one plugin() call, with every form *)
(* of argument, on a loader that has no units yet.                         *)
(***************************************************************************)
XhrSettings == {Undefined, "xhr1"}
Extensions == {Undefined, "mjs"}

\* every key with no url and with each callable, and valid keys with a url,
\* an extension and transfer options
AllArgs ==
    Args(Keys, Urls, {Undefined}, {Undefined})
    \cup Args({"a"}, {"lib/p.js"}, XhrSettings, Extensions)
    \cup Args({"b"}, {Undefined}, {"xhr1"}, {"mjs"})

InitBatch ==
    /\ window \in InitWindows
    /\ files = <<>>
    /\ lastError = NoError
    /\ lastCall = NoCall

BatchPlugin ==
    /\ lastCall = NoCall
    /\ \E arg \in AllArgs : Plugin(arg)

BatchPluginArray ==
    /\ lastCall = NoCall
    /\ \E n \in 1..MaxBatch :
          \E key \in ConfigArrays(AllArgs, n) : PluginArray(key)

NextBatch ==
    \/ BatchPlugin
    \/ BatchPluginArray

SpecBatch == InitBatch /\ [][NextBatch]_vars

(***************************************************************************)
(* Specification of two units in flight under different keys: the state    *)
(* after plugin([{key: "a"}, {key: "b"}]), followed by transfers, onProcess *)
(* calls and destruction of the two units in any order.                    *)
(***************************************************************************)
PairArgs ==
    << [isObject |-> TRUE, key |-> "a", url |-> Undefined,
        xhrSettings |-> Undefined, extension |-> Undefined],
       [isObject |-> TRUE, key |-> "b", url |-> Undefined,
        xhrSettings |-> Undefined, extension |-> Undefined] >>

InitPair ==
    /\ window \in InitWindows
    /\ files = PluginLoop(PairArgs, 1, window, <<>>).files
    /\ lastError = NoError
    /\ lastCall = [form |-> "array", args |-> PairArgs, base |-> 0]

NextPair ==
    \/ DoStartTransfer
    \/ DoTransportSuccess
    \/ DoTransportFailure
    \/ DoDestroy
    \/ DoProcess

SpecPair == InitPair /\ [][NextPair]_vars

TypeOK ==
    /\ window \in [SlotNames -> SlotValues]
    /\ \A i \in 1..Len(files) :
          /\ files[i].key \in ValidKeys
          /\ files[i].state \in States
    /\ lastError.name \in {"none", "ConfigurationError", "TypeError",
                           "RegisterError", "TransferError"}

(***************************************************************************)
(* Properties.                                                             *)
(***************************************************************************)
Units == 1..Len(files)

\* C1: register is invoked at most once for every unit, whatever operations
\* are applied to it (onProcess on a Complete or Errored unit included).
C1_RegisterAtMostOnce ==
    \A i \in Units : files[i].registerCalls <= 1

C3_FirstProcessCompletes ==
    [][\A i \in Units :
          (/\ OnProcess(i)
           /\ ~IsFunction(files[i].url)
           /\ files[i].state = Loading
           /\ files[i].processCalls = 0
           /\ files[i].xhrLoader = BindsOk)
          => (/\ files'[i].state = Complete
              /\ files'[i].completeNotices = 1
              /\ files'[i].registerCalls = 1
              /\ lastError' = NoError)]_vars

C3_Witness ==
    \E i \in Units :
        /\ files[i].url = files[i].key \o ".js"
        /\ files[i].transportCalls = 1
        /\ files[i].xhrLoader = BindsOk
        /\ files[i].processCalls = 1
        /\ files[i].state = Complete
        /\ files[i].registerCalls = 1
        /\ files[i].completeNotices = 1

\* C4: an onProcess call that throws (while materializing the payload or in
\* register) does not leave the unit Complete and does not notify the driver
\* of completion.
C4_ThrowDoesNotComplete ==
    [][\A i \in Units :
          (OnProcess(i) /\ lastError' # NoError)
          => (/\ files'[i].state # Complete
              /\ files'[i].completeNotices = files[i].completeNotices)]_vars

C4_Witness ==
    \E i \in Units :
        /\ files[i].processCalls = 1
        /\ files[i].xhrLoader \in {BindsThrowing, BindsNothing}
        /\ lastError \in {TypeError, RegisterError}
        /\ files[i].state = Processing
        /\ files[i].completeNotices = 0

\* C5: an onProcess call made after a successful transfer that throws
\* (while materializing the payload or in register) leaves the unit Errored,
\* and the error it surfaces identifies the unit's key.
C5_ThrowLeavesErrored ==
    [][\A i \in Units :
          (/\ OnProcess(i)
           /\ files[i].state = Loading
           /\ files[i].xhrLoader # Null
           /\ lastError' # NoError)
          => (/\ files'[i].state = Errored
              /\ lastError'.key = files[i].key)]_vars

\* C6: no operation changes a Destroyed unit: it stays Destroyed, register
\* is not invoked for it and no script element is created for it.
C6_DestroyedIsInert ==
    [][\A i \in Units :
          files[i].state = Destroyed
          => (/\ files'[i].state = Destroyed
              /\ files'[i].registerCalls = files[i].registerCalls
              /\ files'[i].data = files[i].data)]_vars

\* the edges of the state machine; onProcess passes through Processing, so
\* one onProcess call may take a unit from Loading to Complete or Errored
ForwardEdges ==
    {<<Pending, Loading>>, <<Loading, Processing>>, <<Loading, Complete>>,
     <<Loading, Errored>>, <<Processing, Complete>>, <<Processing, Errored>>}
    \cup {<<s, Destroyed>> : s \in States \ {Destroyed}}

\* C7: every change of a unit's state follows an edge of the state machine:
\* Processing is entered only from Loading and nothing leaves Complete,
\* Errored or Destroyed for an earlier state.
C7_ForwardOnly ==
    [][\A i \in Units :
          \/ files'[i].state = files[i].state
          \/ <<files[i].state, files'[i].state>> \in ForwardEdges]_vars

\* C8: an activation (onProcess, or construction with a callable) whose slot
\* already holds an unrelated value fails with a collision error, leaves the
\* slot as it was and does not invoke register.
C8_CollisionDetected ==
    [][/\ \A i \in Units :
             (OnProcess(i) /\ window[ToPropertyKey(files[i].key)] = Unrelated)
             => (/\ window' = window
                 /\ lastError'.name = "NamespaceCollisionError"
                 /\ files'[i].registerCalls = files[i].registerCalls)
       /\ \A arg \in LifecycleArgs :
             (/\ Plugin(arg)
              /\ IsFunction(arg.url)
              /\ window[ToPropertyKey(arg.key)] = Unrelated)
             => (/\ window' = window
                 /\ lastError'.name = "NamespaceCollisionError"
                 /\ files' = files)]_vars

\* C9: a plugin() call in positional or configuration-record form whose key
\* is missing or empty fails with a configuration error and enqueues nothing.
C9_InvalidKeyIsConfigurationError ==
    (lastCall.form = "single" /\ lastCall.args[1].key \in {Undefined, ""})
    => (/\ lastError = ConfigurationError
        /\ Len(files) = lastCall.base)

\* a record whose construction succeeds: a non-empty key and no callable
\* whose register throws
ValidArg(a) == a.key \notin {Undefined, ""} /\ a.url # FnThrows

\* the unit u carries the key, url, extension and transfer options of a
BuiltFrom(u, a) ==
    /\ u.key = a.key
    /\ u.xhrSettings = a.xhrSettings
    /\ u.extension = IF a.isObject /\ a.extension # Undefined THEN a.extension ELSE "js"
    /\ u.url = IF a.url # Undefined THEN a.url
               ELSE IF a.isObject /\ a.extension # Undefined
                    THEN a.key \o "." \o a.extension
                    ELSE a.key \o ".js"

\* C10: a plugin() call with an array of N valid configuration records
\* enqueues exactly N units, the j-th built from the j-th element alone; a
\* call in non-array form with valid arguments enqueues exactly one.
C10_OneUnitPerElement ==
    (/\ lastCall.form \in {"single", "array"}
     /\ \A j \in 1..Len(lastCall.args) : ValidArg(lastCall.args[j]))
    => (/\ Len(files) = lastCall.base + Len(lastCall.args)
        /\ \A j \in 1..Len(lastCall.args) :
               BuiltFrom(files[lastCall.base + j], lastCall.args[j])
        /\ lastError = NoError)

C10_Witness ==
    /\ lastCall.form = "array"
    /\ Len(lastCall.args) = 2
    /\ Len(files) = 2
    /\ ValidArg(lastCall.args[1]) /\ ValidArg(lastCall.args[2])
    /\ lastCall.args[1].key # lastCall.args[2].key
    /\ lastCall.args[1].extension # lastCall.args[2].extension
    /\ lastCall.args[1].xhrSettings # lastCall.args[2].xhrSettings
    /\ files[1].url # files[2].url

\* the source locator the arguments a ask for
ExpectedLocator(a) ==
    IF a.url # Undefined
    THEN a.url
    ELSE a.key \o "." \o (IF a.isObject /\ a.extension # Undefined
                          THEN a.extension ELSE "js")

C12_TransferFailureIsFinal ==
    [][\A i \in Units :
          /\ (TransportFailure(i) /\ files[i].state = Loading)
             => (/\ files'[i].state = Errored
                 /\ lastError'.key = files[i].key)
          /\ files[i].state = Errored
             => (/\ files'[i].state \notin {Processing, Complete}
                 /\ files'[i].registerCalls = files[i].registerCalls)]_vars

\* a step in which unit i fails: its transfer fails or its onProcess throws
FailureStep(i) ==
    \/ TransportFailure(i) /\ files[i].state = Loading
    \/ OnProcess(i) /\ lastError' # NoError

\* unit i has failed: its transfer failed or its onProcess threw
HasFailed(i) ==
    \/ files[i].state = Errored
    \/ files[i].state = Processing /\ files[i].processCalls > 0

\* C13: with units in flight under different keys, a transfer error or an
\* onProcess that throws in one unit leaves every other unit and every other
\* unit's namespace slot unchanged, and a unit whose own transfer and
\* activation succeed still becomes Complete after another unit has failed.
C13_FailureIsIsolated ==
    [][\A i \in Units :
          /\ FailureStep(i)
             => \A j \in Units \ {i} :
                    files[j].key # files[i].key
                    => /\ files'[j] = files[j]
                       /\ window'[files[j].key] = window[files[j].key]
          /\ (/\ OnProcess(i)
              /\ files[i].state = Loading
              /\ files[i].processCalls = 0
              /\ files[i].xhrLoader = BindsOk
              /\ \E j \in Units \ {i} : HasFailed(j))
             => (/\ files'[i].state = Complete
                 /\ files'[i].completeNotices = 1
                 /\ lastError' = NoError)]_vars

C13_Witness ==
    \E i, j \in Units :
        /\ files[i].key # files[j].key
        /\ files[i].state = Processing
        /\ files[i].xhrLoader = BindsThrowing
        /\ files[i].registerCalls = 1
        /\ files[j].state = Complete
        /\ files[j].completeNotices = 1
        /\ lastError = NoError

\* C14: a slot of the namespace changes only in an onProcess step of a unit
\* whose key names the slot, and only in the first such step of the unit; no
\* other operation (construction included) writes it.
C14_OnlyProcessWritesSlot ==
    [][\A k \in SlotNames :
          window'[k] # window[k]
          => \E i \in Units :
                 /\ ToPropertyKey(files[i].key) = k
                 /\ OnProcess(i)
                 /\ files[i].processCalls = 0]_vars

\* C15: one onProcess call sets Processing, materializes the payload, calls
\* register on the value then bound at the key, and only after register has
\* returned notifies the driver: a call that notifies has called register
\* once and thrown nothing; a call that calls register has built the script
\* element from the payload and appended it, and the value at the key after
\* the append is the one whose register is called; a call that throws
\* leaves the unit in Processing.
C15_ProcessOrder ==
    [][\A i \in Units :
          OnProcess(i)
          => LET before == files[i]
                 after == files'[i]
                 slot == ToPropertyKey(before.key)
                 notified == after.completeNotices > before.completeNotices
                 registered == after.registerCalls > before.registerCalls
             IN  /\ after.state \in {Processing, Complete}
                 /\ after.state = Complete <=> notified
                 /\ notified
                    => /\ after.registerCalls = before.registerCalls + 1
                       /\ after.completeNotices = before.completeNotices + 1
                       /\ ~RegisterThrows(window'[slot])
                       /\ lastError' = NoError
                 /\ registered
                    => /\ before.xhrLoader # Null
                       /\ after.data = ScriptElement(before.xhrLoader)
                       /\ window' = AppendChild(window, slot, before.xhrLoader)
                       /\ HasRegister(window'[slot])
                 /\ (registered /\ ~notified) => lastError' = RegisterError]_vars

C15_Witness ==
    \E i \in Units :
        /\ files[i].processCalls = 1
        /\ files[i].state = Complete
        /\ files[i].data = ScriptElement(BindsOk)
        /\ window[files[i].key] = ScriptOk
        /\ files[i].registerCalls = 1
        /\ files[i].completeNotices = 1
        /\ lastError = NoError
        /\ lastCall = NoCall

C17_FailedConstructionHasNoEffect ==
    [][\A arg \in AllArgs :
          (Plugin(arg) /\ arg.key \in {Undefined, ""})
          => (/\ lastError' # NoError
              /\ files' = files
              /\ window' = window
              /\ ~PluginFile(window, arg).registered)]_vars

\* the index of the first element whose construction throws, 0 if none
FirstInvalid(args) ==
    IF \A j \in 1..Len(args) : ValidArg(args[j])
    THEN 0
    ELSE CHOOSE j \in 1..Len(args) :
             /\ ~ValidArg(args[j])
             /\ \A h \in 1..(j - 1) : ValidArg(args[h])

\* C18: when the construction of the element at index f of an array throws,
\* the call fails, exactly the units of the elements before f have been
\* enqueued, in array order, and no element after f has been constructed
\* (no callable of a later element is bound in the namespace).
C18_BatchStopsAtFirstFailure ==
    (lastCall.form = "array" /\ FirstInvalid(lastCall.args) > 0)
    => LET f == FirstInvalid(lastCall.args)
       IN  /\ lastError # NoError
           /\ Len(files) = lastCall.base + f - 1
           /\ \A j \in 1..(f - 1) :
                  BuiltFrom(files[lastCall.base + j], lastCall.args[j])
           /\ \A k \in SlotNames :
                  IsFunction(window[k])
                  => \E j \in 1..f :
                         /\ lastCall.args[j].url = window[k]
                         /\ ToPropertyKey(lastCall.args[j].key) = k

C18_Witness ==
    /\ lastCall.form = "array"
    /\ Len(lastCall.args) = 2
    /\ ValidArg(lastCall.args[1])
    /\ ~ValidArg(lastCall.args[2])
    /\ Len(files) = 1
    /\ files[1].key = lastCall.args[1].key
    /\ lastError = ConfigurationError

====
